---- MODULE Spec2Model ----
(***************************************************************************)
(* IRIS hybrid intelligence: provider registry, rate limiter, circuit      *)
(* breaker, selection strategies, fallback chain (hybrid_intelligence.py)  *)
(* and the conversation store of IRISCore (iris.py).                       *)
(*                                                                         *)
(* Numbers are scaled to integers: cost in 1/1000, latency in 1/10,        *)
(* quality and confidence in 1/100, smart scores in 1/1000.  Time is in    *)
(* seconds.  Requests are asyncio tasks: a step of the model runs from one *)
(* suspension point (the await inside a provider) to the next.             *)
(***************************************************************************)
EXTENDS Integers, Sequences, FiniteSets, TLC

VARIABLES
    providers,             \* HybridIntelligenceManager.providers
    routing_strategy,      \* HybridIntelligenceManager.routing_strategy
    strategy_error,        \* outcome of the last set_routing_strategy call
    conversation_history,  \* IRISCore.conversation_history
    is_initialized,        \* IRISCore.is_initialized
    now,                   \* the wall clock (time.time(), datetime.now())
    req,                   \* the process_message tasks, one per slot
    recent,                \* history: per provider, its last recorded outcomes
    attempted,             \* history: per provider, its invocations by time
    events                 \* number of calls and clock advances so far

vars == <<providers, routing_strategy, strategy_error, conversation_history,
          is_initialized, now, req, recent, attempted, events>>

(***************************************************************************)
(* Bounds of the model.                                                    *)
(***************************************************************************)
MaxEvents == 4
StartTime == 4000
WarmRequests == 58

Slots == {1, 2}
TickSteps == {60, 3601}

\* len(message): "essay" stands for a message of more than 500 characters
MessageLen(message) == IF message = "essay" THEN 501 ELSE 4

(***************************************************************************)
(* Enumerations                                                            *)
(***************************************************************************)
OLLAMA_LOCAL == "ollama_local"
HUGGINGFACE_LOCAL == "huggingface_local"
HUGGINGFACE_CLOUD == "huggingface_cloud"
OPENAI_CLOUD == "openai_cloud"
FALLBACK_LOCAL == "fallback_local"

\* the providers in the order of the providers dict
AIProvider ==
    <<OLLAMA_LOCAL, HUGGINGFACE_LOCAL, HUGGINGFACE_CLOUD, OPENAI_CLOUD, FALLBACK_LOCAL>>

AIProviders == {AIProvider[i] : i \in DOMAIN AIProvider}

AVAILABLE == "available"
UNAVAILABLE == "unavailable"
RATE_LIMITED == "rate_limited"
ERROR == "error"

ProviderStatus == {AVAILABLE, UNAVAILABLE, RATE_LIMITED, ERROR}

ErrorThreshold == 3
HourSeconds == 3600
MinuteSeconds == 60
LongMessage == 500
HistoryLimit == 5

NoRateLimit == [window |-> "none", max_requests |-> 0, current |-> 0]

InitProviders ==
    [p \in AIProviders |->
        CASE p = OLLAMA_LOCAL ->
               [status |-> AVAILABLE, priority |-> 1, cost |-> 0, latency |-> 20,
                quality |-> 85, last_used |-> 0, rate_limit |-> NoRateLimit,
                error_count |-> 0]
          [] p = HUGGINGFACE_LOCAL ->
               [status |-> AVAILABLE, priority |-> 2, cost |-> 0, latency |-> 30,
                quality |-> 80, last_used |-> 0, rate_limit |-> NoRateLimit,
                error_count |-> 0]
          [] p = HUGGINGFACE_CLOUD ->
               [status |-> AVAILABLE, priority |-> 3, cost |-> 0, latency |-> 15,
                quality |-> 88, last_used |-> 0,
                rate_limit |-> [window |-> "per_hour", max_requests |-> 1000,
                                current |-> 0],
                error_count |-> 0]
          [] p = OPENAI_CLOUD ->
               [status |-> AVAILABLE, priority |-> 4, cost |-> 2, latency |-> 12,
                quality |-> 95, last_used |-> 0,
                rate_limit |-> [window |-> "per_minute", max_requests |-> 60,
                                current |-> 0],
                error_count |-> 0]
          [] OTHER ->
               [status |-> AVAILABLE, priority |-> 5, cost |-> 0, latency |-> 1,
                quality |-> 50, last_used |-> 0, rate_limit |-> NoRateLimit,
                error_count |-> 0]]

ValidStrategies == {"smart", "cost_first", "speed_first", "quality_first"}

\* the names a caller may pass to set_routing_strategy
StrategyNames == ValidStrategies \cup {"priority_first", "fastest"}

(***************************************************************************)
(* Rate limiter: _check_rate_limit                                         *)
(***************************************************************************)
\* the rate_limit entry of a provider after _check_rate_limit ran at time t
RateLimitChecked(info, t) ==
    LET rl == info.rate_limit IN
    IF rl.window = "per_hour" /\ t - info.last_used > HourSeconds
        THEN [rl EXCEPT !.current = 0]
    ELSE IF rl.window = "per_minute" /\ t - info.last_used > MinuteSeconds
        THEN [rl EXCEPT !.current = 0]
    ELSE rl

\* the value _check_rate_limit returns at time t
CheckRateLimit(info, t) ==
    IF info.rate_limit.window = "none" THEN TRUE
    ELSE LET rl == RateLimitChecked(info, t) IN rl.current < rl.max_requests

(***************************************************************************)
(* Circuit breaker and counters: _update_provider_stats                    *)
(***************************************************************************)
\* mutant: the two branches are taken the wrong way round
MutUpdateProviderStatsSwapped(pr, p, success, t) ==
    LET info == pr[p]
        count == IF ~success
                 THEN (IF info.error_count - 1 > 0 THEN info.error_count - 1 ELSE 0)
                 ELSE info.error_count + 1
        status == IF ~success
                  THEN (IF info.status = ERROR THEN AVAILABLE ELSE info.status)
                  ELSE (IF count >= ErrorThreshold THEN ERROR ELSE info.status)
        rl == IF info.rate_limit.window = "none" THEN info.rate_limit
              ELSE [info.rate_limit EXCEPT !.current = @ + 1]
    IN [pr EXCEPT ![p] = [info EXCEPT !.last_used = t, !.error_count = count,
                                      !.status = status, !.rate_limit = rl]]

\* mutant: a success lowers the count without the floor at 0
MutUpdateProviderStatsNoFloor(pr, p, success, t) ==
    LET info == pr[p]
        count == IF success THEN info.error_count - 1 ELSE info.error_count + 1
        status == IF success
                  THEN (IF info.status = ERROR THEN AVAILABLE ELSE info.status)
                  ELSE (IF count >= ErrorThreshold THEN ERROR ELSE info.status)
        rl == IF info.rate_limit.window = "none" THEN info.rate_limit
              ELSE [info.rate_limit EXCEPT !.current = @ + 1]
    IN [pr EXCEPT ![p] = [info EXCEPT !.last_used = t, !.error_count = count,
                                      !.status = status, !.rate_limit = rl]]

\* mutant: the status flips one failure early
MutUpdateProviderStatsEarly(pr, p, success, t) ==
    LET info == pr[p]
        count == IF success
                 THEN (IF info.error_count - 1 > 0 THEN info.error_count - 1 ELSE 0)
                 ELSE info.error_count + 1
        status == IF success
                  THEN (IF info.status = ERROR THEN AVAILABLE ELSE info.status)
                  ELSE (IF count >= ErrorThreshold - 1 THEN ERROR ELSE info.status)
        rl == IF info.rate_limit.window = "none" THEN info.rate_limit
              ELSE [info.rate_limit EXCEPT !.current = @ + 1]
    IN [pr EXCEPT ![p] = [info EXCEPT !.last_used = t, !.error_count = count,
                                      !.status = status, !.rate_limit = rl]]

\* mutant: the count is computed from the entry as constructed, so an
\* outcome recorded in between is lost
MutUpdateProviderStatsStale(pr, p, success, t) ==
    LET info == pr[p]
        stale == InitProviders[p].error_count
        count == IF success
                 THEN (IF stale - 1 > 0 THEN stale - 1 ELSE 0)
                 ELSE stale + 1
        status == IF success
                  THEN (IF info.status = ERROR THEN AVAILABLE ELSE info.status)
                  ELSE (IF count >= ErrorThreshold THEN ERROR ELSE info.status)
        rl == IF info.rate_limit.window = "none" THEN info.rate_limit
              ELSE [info.rate_limit EXCEPT !.current = @ + 1]
    IN [pr EXCEPT ![p] = [info EXCEPT !.last_used = t, !.error_count = count,
                                      !.status = status, !.rate_limit = rl]]

\* mutant: a provider whose counter reaches max_requests becomes RATE_LIMITED
MutUpdateProviderStatsLimited(pr, p, success, t) ==
    LET info == pr[p]
        count == IF success
                 THEN (IF info.error_count - 1 > 0 THEN info.error_count - 1 ELSE 0)
                 ELSE info.error_count + 1
        rl == IF info.rate_limit.window = "none" THEN info.rate_limit
              ELSE [info.rate_limit EXCEPT !.current = @ + 1]
        status == IF rl.window # "none" /\ rl.current >= rl.max_requests
                  THEN RATE_LIMITED
                  ELSE IF success
                  THEN (IF info.status = ERROR THEN AVAILABLE ELSE info.status)
                  ELSE (IF count >= ErrorThreshold THEN ERROR ELSE info.status)
    IN [pr EXCEPT ![p] = [info EXCEPT !.last_used = t, !.error_count = count,
                                      !.status = status, !.rate_limit = rl]]

\* mutant: the status flips one failure late
MutUpdateProviderStats(pr, p, success, t) ==
    LET info == pr[p]
        count == IF success
                 THEN (IF info.error_count - 1 > 0 THEN info.error_count - 1 ELSE 0)
                 ELSE info.error_count + 1
        status == IF success
                  THEN (IF info.status = ERROR THEN AVAILABLE ELSE info.status)
                  ELSE (IF count > ErrorThreshold THEN ERROR ELSE info.status)
        rl == IF info.rate_limit.window = "none" THEN info.rate_limit
              ELSE [info.rate_limit EXCEPT !.current = @ + 1]
    IN [pr EXCEPT ![p] = [info EXCEPT !.last_used = t, !.error_count = count,
                                      !.status = status, !.rate_limit = rl]]

UpdateProviderStats(pr, p, success, t) ==
    LET info == pr[p]
        count == IF success
                 THEN (IF info.error_count - 1 > 0 THEN info.error_count - 1 ELSE 0)
                 ELSE info.error_count + 1
        status == IF success
                  THEN (IF info.status = ERROR THEN AVAILABLE ELSE info.status)
                  ELSE (IF count >= ErrorThreshold THEN ERROR ELSE info.status)
        rl == IF info.rate_limit.window = "none" THEN info.rate_limit
              ELSE [info.rate_limit EXCEPT !.current = @ + 1]
    IN [pr EXCEPT ![p] = [info EXCEPT !.last_used = t, !.error_count = count,
                                      !.status = status, !.rate_limit = rl]]

(***************************************************************************)
(* Selection: _select_provider, _smart_selection                           *)
(***************************************************************************)
\* mutant: the scan also stamps last_used when it resets a counter
MutProvidersScanned(pr, t) ==
    [p \in AIProviders |->
        IF pr[p].status = AVAILABLE
        THEN [pr[p] EXCEPT !.rate_limit = RateLimitChecked(pr[p], t),
                           !.last_used =
                               IF RateLimitChecked(pr[p], t) # pr[p].rate_limit
                               THEN t ELSE @]
        ELSE pr[p]]

\* the registry after the eligibility scan of _select_provider: the check
\* runs (and may reset the counter) for every provider whose status is AVAILABLE
ProvidersScanned(pr, t) ==
    [p \in AIProviders |->
        IF pr[p].status = AVAILABLE
        THEN [pr[p] EXCEPT !.rate_limit = RateLimitChecked(pr[p], t)]
        ELSE pr[p]]

\* mutant: the status of a provider is not looked at
MutAvailableProviders(pr, t) ==
    SelectSeq(AIProvider, LAMBDA p : CheckRateLimit(pr[p], t))

\* available_providers of _select_provider, in dict order
AvailableProviders(pr, t) ==
    SelectSeq(AIProvider,
              LAMBDA p : pr[p].status = AVAILABLE /\ CheckRateLimit(pr[p], t))

\* mutant: the last element whose key is minimal
MutFirstMinBy(seq, key) ==
    LET i == CHOOSE i \in DOMAIN seq :
                 /\ \A j \in DOMAIN seq : key[seq[i]] <= key[seq[j]]
                 /\ \A j \in (i + 1)..Len(seq) : key[seq[j]] > key[seq[i]]
    IN seq[i]

\* Python's min(seq, key=...): the first element whose key is minimal
FirstMinBy(seq, key) ==
    LET i == CHOOSE i \in DOMAIN seq :
                 /\ \A j \in DOMAIN seq : key[seq[i]] <= key[seq[j]]
                 /\ \A j \in 1..(i - 1) : key[seq[j]] > key[seq[i]]
    IN seq[i]

\* mutant: the first element of the sequence, whatever its key
MutFirstMaxBy(seq, key) == seq[1]

\* Python's max(seq, key=...): the first element whose key is maximal
FirstMaxBy(seq, key) ==
    LET i == CHOOSE i \in DOMAIN seq :
                 /\ \A j \in DOMAIN seq : key[seq[i]] >= key[seq[j]]
                 /\ \A j \in 1..(i - 1) : key[seq[j]] < key[seq[i]]
    IN seq[i]

\* "local" in provider.value.lower()
IsLocal(p) == p \in {OLLAMA_LOCAL, HUGGINGFACE_LOCAL, FALLBACK_LOCAL}

\* mutant: a provider that was used before loses 0.05
MutCalculateScore(pr, p, message) ==
    LET info == pr[p]
        score == info.quality * 4 + (6 - info.priority) * 100
                 - info.latency * 10
                 - info.cost * 10
                 - info.error_count * 50
                 - (IF info.last_used > 0 THEN 50 ELSE 0)
                 + (IF IsLocal(p) THEN 200 ELSE 0)
                 + (IF MessageLen(message) > LongMessage THEN info.quality * 2 ELSE 0)
    IN IF score > 0 THEN score ELSE 0

\* mutant: the clamp is at 0.5 instead of 0
MutCalculateScoreClamp(pr, p, message) ==
    LET info == pr[p]
        score == info.quality * 4 + (6 - info.priority) * 100
                 - info.latency * 10
                 - info.cost * 10
                 - info.error_count * 50
                 + (IF IsLocal(p) THEN 200 ELSE 0)
                 + (IF MessageLen(message) > LongMessage THEN info.quality * 2 ELSE 0)
    IN IF score > 500 THEN score ELSE 500

\* mutant: an error costs 0.15 instead of 0.05
MutCalculateScorePenalty(pr, p, message) ==
    LET info == pr[p]
        score == info.quality * 4 + (6 - info.priority) * 100
                 - info.latency * 10
                 - info.cost * 10
                 - info.error_count * 150
                 + (IF IsLocal(p) THEN 200 ELSE 0)
                 + (IF MessageLen(message) > LongMessage THEN info.quality * 2 ELSE 0)
    IN IF score > 0 THEN score ELSE 0

\* calculate_score, in 1/1000
CalculateScore(pr, p, message) ==
    LET info == pr[p]
        score == info.quality * 4 + (6 - info.priority) * 100
                 - info.latency * 10
                 - info.cost * 10
                 - info.error_count * 50
                 + (IF IsLocal(p) THEN 200 ELSE 0)
                 + (IF MessageLen(message) > LongMessage THEN info.quality * 2 ELSE 0)
    IN IF score > 0 THEN score ELSE 0

SmartSelection(pr, available, message) ==
    FirstMaxBy(available, [p \in AIProviders |-> CalculateScore(pr, p, message)])

\* mutant: with nothing eligible, the first provider of the registry
MutSelectProviderFirst(pr, strategy, message, t) ==
    LET available == AvailableProviders(pr, t) IN
    IF available = << >> THEN AIProvider[1]
    ELSE IF strategy = "smart" THEN SmartSelection(pr, available, message)
    ELSE IF strategy = "cost_first" THEN FirstMinBy(available, [p \in AIProviders |-> pr[p].cost])
    ELSE IF strategy = "speed_first" THEN FirstMinBy(available, [p \in AIProviders |-> pr[p].latency])
    ELSE IF strategy = "quality_first" THEN FirstMaxBy(available, [p \in AIProviders |-> pr[p].quality])
    ELSE FirstMinBy(available, [p \in AIProviders |-> pr[p].priority])

\* mutant: cost_first looks at every provider, eligible or not
MutSelectProvider(pr, strategy, message, t) ==
    LET available == AvailableProviders(pr, t) IN
    IF available = << >> THEN FALLBACK_LOCAL
    ELSE IF strategy = "smart" THEN SmartSelection(pr, available, message)
    ELSE IF strategy = "cost_first" THEN FirstMinBy(AIProvider, [p \in AIProviders |-> pr[p].cost])
    ELSE IF strategy = "speed_first" THEN FirstMinBy(available, [p \in AIProviders |-> pr[p].latency])
    ELSE IF strategy = "quality_first" THEN FirstMaxBy(available, [p \in AIProviders |-> pr[p].quality])
    ELSE FirstMinBy(available, [p \in AIProviders |-> pr[p].priority])

\* the provider _select_provider returns at time t
SelectProvider(pr, strategy, message, t) ==
    LET available == AvailableProviders(pr, t) IN
    IF available = << >> THEN FALLBACK_LOCAL
    ELSE IF strategy = "smart" THEN SmartSelection(pr, available, message)
    ELSE IF strategy = "cost_first" THEN FirstMinBy(available, [p \in AIProviders |-> pr[p].cost])
    ELSE IF strategy = "speed_first" THEN FirstMinBy(available, [p \in AIProviders |-> pr[p].latency])
    ELSE IF strategy = "quality_first" THEN FirstMaxBy(available, [p \in AIProviders |-> pr[p].quality])
    ELSE FirstMinBy(available, [p \in AIProviders |-> pr[p].priority])

(***************************************************************************)
(* Fallback chain: _try_fallback_providers                                 *)
(***************************************************************************)
\* list.sort(key=priority): a stable insertion sort
RECURSIVE InsertByPriority(_, _, _)
InsertByPriority(pr, sorted, p) ==
    IF sorted = << >> THEN <<p>>
    ELSE IF pr[p].priority < pr[Head(sorted)].priority THEN <<p>> \o sorted
    ELSE <<Head(sorted)>> \o InsertByPriority(pr, Tail(sorted), p)

RECURSIVE SortByPriority(_, _)
SortByPriority(pr, seq) ==
    IF seq = << >> THEN << >>
    ELSE InsertByPriority(pr, SortByPriority(pr, SubSeq(seq, 1, Len(seq) - 1)),
                          seq[Len(seq)])

\* mutant: the provider that failed stays in the chain
MutFallbackChainWithFailed(pr, exclude) ==
    SortByPriority(pr, SelectSeq(AIProvider, LAMBDA p : pr[p].status = AVAILABLE))

\* mutant: the last resort is left out of the chain
MutFallbackChainNoLastResort(pr, exclude) ==
    SortByPriority(pr,
        SelectSeq(AIProvider, LAMBDA p : /\ p # exclude
                                         /\ p # FALLBACK_LOCAL
                                         /\ pr[p].status = AVAILABLE))

\* mutant: only providers of lower rank than the failed one are tried
MutFallbackChainLowerOnly(pr, exclude) ==
    SortByPriority(pr,
        SelectSeq(AIProvider, LAMBDA p : /\ pr[p].priority > pr[exclude].priority
                                         /\ pr[p].status = AVAILABLE))

\* available_providers of _try_fallback_providers: status only, no rate-limit check
FallbackChain(pr, exclude) ==
    SortByPriority(pr,
        SelectSeq(AIProvider, LAMBDA p : p # exclude /\ pr[p].status = AVAILABLE))

(***************************************************************************)
(* Conversation store: IRISCore.get_conversation_history                   *)
(***************************************************************************)
\* mutant: the first limit elements, seq[:limit]
MutSliceLast(seq, limit) ==
    IF limit >= Len(seq) THEN seq ELSE SubSeq(seq, 1, limit)

\* seq[-limit:] of Python: -0 is 0, so limit 0 takes the whole list
SliceLast(seq, limit) ==
    IF limit = 0 THEN seq
    ELSE IF limit > 0
        THEN (IF limit >= Len(seq) THEN seq
              ELSE SubSeq(seq, Len(seq) - limit + 1, Len(seq)))
    ELSE (IF -limit >= Len(seq) THEN << >>
          ELSE SubSeq(seq, 1 - limit, Len(seq)))

GetConversationHistory(history, user_id, limit) ==
    SliceLast(SelectSeq(history, LAMBDA msg : msg.user_id = user_id), limit)

UserTurn(user_id, message, t) ==
    [timestamp |-> t, user_id |-> user_id, message |-> message, type |-> "user"]

IrisTurn(user_id, ai_result, t) ==
    [timestamp |-> t, user_id |-> user_id, message |-> ai_result.response,
     type |-> "iris", provider |-> ai_result.provider_used,
     confidence |-> ai_result.confidence]

(***************************************************************************)
(* Providers: _process_with_provider and the five processing functions     *)
(***************************************************************************)
ProviderLabel(p) ==
    CASE p = OLLAMA_LOCAL -> "[Ollama/Llama3.1]"
      [] p = HUGGINGFACE_LOCAL -> "[HF/Local]"
      [] p = HUGGINGFACE_CLOUD -> "[HF/Cloud]"
      [] p = OPENAI_CLOUD -> "[OpenAI/GPT-4]"
      [] OTHER -> "template"

ProviderConfidence(p) ==
    CASE p = OLLAMA_LOCAL -> 85
      [] p = HUGGINGFACE_LOCAL -> 80
      [] p = HUGGINGFACE_CLOUD -> 88
      [] p = OPENAI_CLOUD -> 95
      [] OTHER -> 50

\* the dict _process_with_provider returns when the provider does not raise
ProcessWithProvider(p, message, start_time, t) ==
    [response |-> <<ProviderLabel(p), message>>,
     confidence |-> ProviderConfidence(p),
     processing_time |-> t - start_time]

\* a provider whose processing function awaits (asyncio.sleep) before it
\* returns; _fallback_process has no await and runs to completion at once
Suspends(p) == p # FALLBACK_LOCAL

(***************************************************************************)
(* The tasks.  A bundle st holds what one step of a task reads and writes: *)
(* its own record rq, the conversation store hist, the registry pr, and    *)
(* the two history variables.                                              *)
(***************************************************************************)
NoResult == [none |-> TRUE]

IdleReq ==
    [pc |-> "idle", user_id |-> "", message |-> "", context |-> << >>,
     eligible |-> << >>, selected |-> "", chain |-> << >>, idx |-> 0,
     start_time |-> 0, ai_result |-> NoResult, result |-> NoResult, error |-> "",
     attempts |-> << >>, recorded |-> << >>, serial |-> 0]

FallbackEnabled == TRUE

\* history: provider p was invoked and returned (ok) or raised (~ok) at time t
LogAttempt(st, p, ok, t) ==
    [st EXCEPT
       !.rq = [st.rq EXCEPT !.attempts = Append(@, [provider |-> p, success |-> ok])],
       !.attempted = [st.attempted EXCEPT ![p] =
                        IF t \in DOMAIN @ THEN [@ EXCEPT ![t] = @ + 1]
                        ELSE @ @@ (t :> 1)]]

\* _update_provider_stats(p, ok) called at time t, with its history
RecordOutcome(st, p, ok, t) ==
    [st EXCEPT
       !.pr = UpdateProviderStats(st.pr, p, ok, t),
       !.rq = [st.rq EXCEPT !.recorded = Append(@, [provider |-> p, success |-> ok])],
       !.recent = [st.recent EXCEPT ![p] =
                     SliceLast(Append(@, ok), ErrorThreshold)]]

\* mutant: the assistant turn is written over the last turn of the store
MutFinish(st, ai_result, t) ==
    IF "provider_used" \in DOMAIN ai_result
    THEN [st EXCEPT
            !.hist = [st.hist EXCEPT ![Len(st.hist)] =
                        IrisTurn(st.rq.user_id, ai_result, t)],
            !.rq = [st.rq EXCEPT
                      !.pc = "returned", !.ai_result = ai_result,
                      !.result = [response |-> ai_result.response,
                                  confidence |-> ai_result.confidence,
                                  context |-> st.rq.context,
                                  provider_used |-> ai_result.provider_used,
                                  processing_time |->
                                      IF "processing_time" \in DOMAIN ai_result
                                      THEN ai_result.processing_time ELSE 0,
                                  timestamp |-> t]]]
    ELSE [st EXCEPT
            !.rq = [st.rq EXCEPT !.pc = "raised", !.ai_result = ai_result,
                                 !.error = "KeyError"]]

\* lines 49-69 of process_message: ai_result["provider_used"] raises KeyError
\* when the key is missing, before the assistant turn is appended
Finish(st, ai_result, t) ==
    IF "provider_used" \in DOMAIN ai_result
    THEN [st EXCEPT
            !.hist = Append(st.hist, IrisTurn(st.rq.user_id, ai_result, t)),
            !.rq = [st.rq EXCEPT
                      !.pc = "returned", !.ai_result = ai_result,
                      !.result = [response |-> ai_result.response,
                                  confidence |-> ai_result.confidence,
                                  context |-> st.rq.context,
                                  provider_used |-> ai_result.provider_used,
                                  processing_time |->
                                      IF "processing_time" \in DOMAIN ai_result
                                      THEN ai_result.processing_time ELSE 0,
                                  timestamp |-> t]]]
    ELSE [st EXCEPT
            !.rq = [st.rq EXCEPT !.pc = "raised", !.ai_result = ai_result,
                                 !.error = "KeyError"]]

\* the dict process_request returns when the selected provider answered
PrimaryResult(pr, p, rq, t) ==
    LET result == ProcessWithProvider(p, rq.message, rq.start_time, t) IN
    [response |-> result.response,
     provider_used |-> p,
     confidence |-> result.confidence,
     processing_time |-> result.processing_time,
     cost_estimate |-> pr[p].cost,
     status |-> "success"]

\* mutant: the provider that answered is reported as the one that failed
MutFallbackResult(p, rq, t) ==
    LET result == ProcessWithProvider(p, rq.message, rq.start_time, t) IN
    [response |-> result.response,
     confidence |-> result.confidence,
     processing_time |-> result.processing_time,
     fallback_used |-> TRUE,
     original_provider_failed |-> p]

\* the dict the fallback loop returns for the provider that answered
FallbackResult(p, rq, t) ==
    LET result == ProcessWithProvider(p, rq.message, rq.start_time, t) IN
    [response |-> result.response,
     confidence |-> result.confidence,
     processing_time |-> result.processing_time,
     fallback_used |-> TRUE,
     original_provider_failed |-> rq.selected]

\* mutant: the degraded dict lacks provider_used, like the fallback dict
MutDegradedResult(message) ==
    [response |-> <<"apology", message>>,
     confidence |-> 10,
     status |-> "degraded"]

DegradedResult(message) ==
    [response |-> <<"apology", message>>,
     provider_used |-> "emergency_fallback",
     confidence |-> 10,
     status |-> "degraded"]

\* the loop of _try_fallback_providers from position i on, up to the next
\* suspension; lastResortOk is the outcome of _fallback_process if it runs
RECURSIVE TryFallbackProviders(_, _, _, _)
TryFallbackProviders(st, i, t, lastResortOk) ==
    IF i > Len(st.rq.chain)
    THEN Finish(st, DegradedResult(st.rq.message), t)
    ELSE LET p == st.rq.chain[i]
             st1 == [st EXCEPT !.rq = [st.rq EXCEPT !.pc = "fallback", !.idx = i,
                                                    !.start_time = t]]
         IN IF Suspends(p) THEN st1
            ELSE IF lastResortOk
            THEN Finish(LogAttempt(st1, p, TRUE, t), FallbackResult(p, st1.rq, t), t)
            ELSE TryFallbackProviders(LogAttempt(st1, p, FALSE, t), i + 1, t,
                                      lastResortOk)

\* _try_fallback_providers from the return (ok) or the exception (~ok) of the
\* awaited chain provider on: lines 317-330
FallbackDone(st, ok, t, lastResortOk) ==
    LET p == st.rq.chain[st.rq.idx]
        st1 == LogAttempt(st, p, ok, t)
    IN IF ok
       THEN Finish(st1, FallbackResult(p, st1.rq, t), t)
       ELSE TryFallbackProviders(st1, st.rq.idx + 1, t, lastResortOk)

\* process_request from the return (ok) or the exception (~ok) of the selected
\* provider on: lines 95-115
PrimaryDone(st, ok, t, lastResortOk) ==
    LET p == st.rq.selected
        st1 == RecordOutcome(LogAttempt(st, p, ok, t), p, ok, t)
    IN IF ok
       THEN Finish(st1, PrimaryResult(st1.pr, p, st1.rq, t), t)
       ELSE IF FallbackEnabled
       THEN TryFallbackProviders(
                [st1 EXCEPT !.rq = [st1.rq EXCEPT !.chain = FallbackChain(st1.pr, p)]],
                1, t, lastResortOk)
       ELSE [st1 EXCEPT !.rq = [st1.rq EXCEPT !.pc = "raised", !.error = "Exception"]]

\* process_message from the append of the user's turn to the first
\* suspension: lines 34-47, and process_request lines 89-93
Begin(st, strategy, t, lastResortOk) ==
    LET rq == st.rq
        hist1 == Append(st.hist, UserTurn(rq.user_id, rq.message, t))
        context == GetConversationHistory(hist1, rq.user_id, HistoryLimit)
        selected == SelectProvider(st.pr, strategy, rq.message, t)
        st1 == [st EXCEPT
                  !.hist = hist1,
                  !.pr = ProvidersScanned(st.pr, t),
                  !.rq = [rq EXCEPT !.pc = "primary", !.context = context,
                                    !.eligible = AvailableProviders(st.pr, t),
                                    !.selected = selected, !.start_time = t]]
    IN IF Suspends(selected) THEN st1
       ELSE PrimaryDone(st1, lastResortOk, t, lastResortOk)

(***************************************************************************)
(* Initial state: the module-level HybridIntelligenceManager() and         *)
(* IRISCore()                                                              *)
(***************************************************************************)
Init ==
    /\ providers = InitProviders
    /\ routing_strategy = "smart"
    /\ strategy_error = "none"
    /\ conversation_history = << >>
    /\ is_initialized = FALSE
    /\ now = StartTime
    /\ req = [r \in Slots |-> IdleReq]
    /\ recent = [p \in AIProviders |-> << >>]
    /\ attempted = [p \in AIProviders |-> << >>]
    /\ events = 0

(***************************************************************************)
(* Actions.  A scenario sc fixes what the environment may do: the task     *)
(* slots, the requests callers send, the strategy names administrators     *)
(* pass, the clock steps and the outcomes of _fallback_process.            *)
(***************************************************************************)
Bundle(r) ==
    [rq |-> req[r], hist |-> conversation_history, pr |-> providers,
     recent |-> recent, attempted |-> attempted]

Commit(r, st) ==
    /\ req' = [req EXCEPT ![r] = st.rq]
    /\ conversation_history' = st.hist
    /\ providers' = st.pr
    /\ recent' = st.recent
    /\ attempted' = st.attempted

Finished(r) == req[r].pc \in {"idle", "returned", "raised"}

\* a new task takes the lowest slot that holds no running task
Free(sc, r) == Finished(r) /\ \A q \in sc.slots : q < r => ~Finished(q)

\* a caller starts process_message(message, user_id)
ProcessMessage(sc, r, user_id, message, lastResortOk) ==
    /\ Free(sc, r)
    /\ events < MaxEvents
    /\ events' = events + 1
    /\ LET rq == [IdleReq EXCEPT !.user_id = user_id, !.message = message,
                                 !.serial = events + 1]
       IN IF is_initialized
          THEN Commit(r, Begin([Bundle(r) EXCEPT !.rq = rq], routing_strategy,
                               now, lastResortOk))
          ELSE /\ req' = [req EXCEPT ![r] = [rq EXCEPT !.pc = "init"]]
               /\ UNCHANGED <<conversation_history, providers, recent, attempted>>
    /\ UNCHANGED <<routing_strategy, strategy_error, is_initialized, now>>

\* the sleep of initialize() is over: lines 24-25, then process_message goes on
Initialized(r, lastResortOk) ==
    /\ req[r].pc = "init"
    /\ is_initialized' = TRUE
    /\ Commit(r, Begin(Bundle(r), routing_strategy, now, lastResortOk))
    /\ UNCHANGED <<routing_strategy, strategy_error, now, events>>

\* the selected provider returns its response
PrimarySucceeds(r) ==
    /\ req[r].pc = "primary"
    /\ Commit(r, PrimaryDone(Bundle(r), TRUE, now, TRUE))
    /\ UNCHANGED <<routing_strategy, strategy_error, is_initialized, now, events>>

\* the selected provider raises
PrimaryFails(r, lastResortOk) ==
    /\ req[r].pc = "primary"
    /\ Commit(r, PrimaryDone(Bundle(r), FALSE, now, lastResortOk))
    /\ UNCHANGED <<routing_strategy, strategy_error, is_initialized, now, events>>

\* the awaited provider of the fallback chain returns its response
FallbackSucceeds(r) ==
    /\ req[r].pc = "fallback"
    /\ Commit(r, FallbackDone(Bundle(r), TRUE, now, TRUE))
    /\ UNCHANGED <<routing_strategy, strategy_error, is_initialized, now, events>>

\* the awaited provider of the fallback chain raises
FallbackFails(r, lastResortOk) ==
    /\ req[r].pc = "fallback"
    /\ Commit(r, FallbackDone(Bundle(r), FALSE, now, lastResortOk))
    /\ UNCHANGED <<routing_strategy, strategy_error, is_initialized, now, events>>

\* mutant: the name is not validated
MutSetRoutingStrategy(strategy) ==
    /\ events < MaxEvents
    /\ events' = events + 1
    /\ routing_strategy' = strategy
    /\ strategy_error' = "none"
    /\ UNCHANGED <<providers, conversation_history, is_initialized, now, req,
                   recent, attempted>>

\* mutant: a valid name is acknowledged but not stored
MutSetRoutingStrategyKeep(strategy) ==
    /\ events < MaxEvents
    /\ events' = events + 1
    /\ routing_strategy' = routing_strategy
    /\ strategy_error' = IF strategy \in ValidStrategies THEN "none" ELSE "ValueError"
    /\ UNCHANGED <<providers, conversation_history, is_initialized, now, req,
                   recent, attempted>>

\* mutant: a valid name also re-selects the provider of the calls in flight
MutSetRoutingStrategyRedispatch(strategy) ==
    /\ events < MaxEvents
    /\ events' = events + 1
    /\ IF strategy \in ValidStrategies
       THEN /\ routing_strategy' = strategy
            /\ strategy_error' = "none"
            /\ req' = [r \in DOMAIN req |->
                         IF req[r].pc \in {"primary", "fallback"}
                         THEN [req[r] EXCEPT !.selected =
                                 SelectProvider(providers, strategy,
                                                req[r].message, now)]
                         ELSE req[r]]
       ELSE /\ routing_strategy' = routing_strategy
            /\ strategy_error' = "ValueError"
            /\ req' = req
    /\ UNCHANGED <<providers, conversation_history, is_initialized, now,
                   recent, attempted>>

\* set_routing_strategy(strategy): lines 383-389
SetRoutingStrategy(strategy) ==
    /\ events < MaxEvents
    /\ events' = events + 1
    /\ IF strategy \in ValidStrategies
       THEN /\ routing_strategy' = strategy
            /\ strategy_error' = "none"
       ELSE /\ routing_strategy' = routing_strategy
            /\ strategy_error' = "ValueError"
    /\ UNCHANGED <<providers, conversation_history, is_initialized, now, req,
                   recent, attempted>>

\* time passes
Tick(d) ==
    /\ events < MaxEvents
    /\ events' = events + 1
    /\ now' = now + d
    /\ UNCHANGED <<providers, routing_strategy, strategy_error,
                   conversation_history, is_initialized, req, recent, attempted>>

Run(sc) ==
    \/ \E r \in sc.slots, q \in sc.requests, ok \in sc.lastResort :
           ProcessMessage(sc, r, q.user_id, q.message, ok)
    \/ \E r \in sc.slots, ok \in sc.lastResort : Initialized(r, ok)
    \/ \E r \in sc.slots : PrimarySucceeds(r)
    \/ \E r \in sc.slots, ok \in sc.lastResort : PrimaryFails(r, ok)
    \/ \E r \in sc.slots : FallbackSucceeds(r)
    \/ \E r \in sc.slots, ok \in sc.lastResort : FallbackFails(r, ok)
    \/ \E s \in sc.names : SetRoutingStrategy(s)
    \/ \E d \in sc.steps : Tick(d)

\* the requests callers send: a short message and one of more than 500 characters
Requests == {[user_id |-> "u1", message |-> "ping"],
             [user_id |-> "u2", message |-> "essay"]}

\* one task at a time; _fallback_process as written has no operation that raises
Scenario ==
    [slots |-> {1}, requests |-> Requests, names |-> StrategyNames,
     steps |-> TickSteps, lastResort |-> {TRUE}]

Next == Run(Scenario)

Spec == Init /\ [][Next]_vars

(***************************************************************************)
(* A busy system: the state after k requests "ping" of u1, one after the   *)
(* other within the same second under quality_first, each answered by the  *)
(* selected provider (openai_cloud, whose limit is 60 per minute).         *)
(***************************************************************************)
\* what the k requests leave in the store, the registry and the history variables
Served(k) ==
    LET rq == [IdleReq EXCEPT !.user_id = "u1", !.message = "ping",
                              !.start_time = StartTime]
        answer == PrimaryResult(InitProviders, OPENAI_CLOUD, rq, StartTime)
    IN [rq |-> IdleReq,
        hist |-> [i \in 1..(2 * k) |->
                    IF i % 2 = 1 THEN UserTurn("u1", "ping", StartTime)
                    ELSE IrisTurn("u1", answer, StartTime)],
        pr |-> IF k = 0 THEN InitProviders
               ELSE [InitProviders EXCEPT ![OPENAI_CLOUD] =
                        [@ EXCEPT !.last_used = StartTime,
                                  !.rate_limit = [@ EXCEPT !.current = k]]],
        recent |-> [p \in AIProviders |->
                      IF p = OPENAI_CLOUD
                      THEN [i \in 1..(IF k < ErrorThreshold THEN k ELSE ErrorThreshold)
                              |-> TRUE]
                      ELSE << >>],
        attempted |-> [p \in AIProviders |->
                         IF p = OPENAI_CLOUD /\ k > 0 THEN (StartTime :> k)
                         ELSE << >>]]

\* the state after the k-th request: the k-th request run on what k - 1 left
AfterRequests(k) ==
    IF k = 0 THEN Served(0)
    ELSE LET rq == [IdleReq EXCEPT !.user_id = "u1", !.message = "ping"]
             st == Begin([Served(k - 1) EXCEPT !.rq = rq], "quality_first",
                         StartTime, TRUE)
         IN PrimaryDone(st, TRUE, StartTime, TRUE)

\* the state WarmRequests served requests leave behind
Warmed ==
    LET st == AfterRequests(WarmRequests) IN
    /\ providers = st.pr
    /\ routing_strategy = "quality_first"
    /\ strategy_error = "none"
    /\ conversation_history = st.hist
    /\ is_initialized = TRUE
    /\ now = StartTime
    /\ req = [r \in Slots |-> IF r = 1 THEN st.rq ELSE IdleReq]
    /\ recent = st.recent
    /\ attempted = st.attempted
    /\ events = 0

\* a run starts from the constructor state or from the warmed one
InitWarm == Init \/ Warmed

ScenarioWarm ==
    [slots |-> {1}, requests |-> {[user_id |-> "u1", message |-> "ping"]},
     names |-> {"smart"}, steps |-> TickSteps, lastResort |-> {TRUE}]

NextWarm == Run(ScenarioWarm)

SpecWarm == InitWarm /\ [][NextWarm]_vars

(***************************************************************************)
(* Two tasks in flight: a second process_message starts while the first    *)
(* awaits its provider.                                                    *)
(***************************************************************************)
ScenarioConc ==
    [slots |-> Slots, requests |-> {[user_id |-> "u1", message |-> "ping"]},
     names |-> {"quality_first"}, steps |-> {3601}, lastResort |-> {TRUE}]

NextConc == Run(ScenarioConc)

SpecConc == Init /\ [][NextConc]_vars

(***************************************************************************)
(* _fallback_process made to raise (a test double, or memory exhaustion    *)
(* while it formats its templates): the only way the code after the loop   *)
(* of _try_fallback_providers runs.                                        *)
(***************************************************************************)
ScenarioInject ==
    [slots |-> {1}, requests |-> {[user_id |-> "u1", message |-> "ping"]},
     names |-> {"speed_first", "fastest"}, steps |-> {3601},
     lastResort |-> BOOLEAN]

NextInject == Run(ScenarioInject)

SpecInject == Init /\ [][NextInject]_vars

(***************************************************************************)
(* A total outage: the state after set_routing_strategy("speed_first") and *)
(* k requests "ping" of u1 during which every provider raised, the last    *)
(* resort included.  Each request records one failure, that of the         *)
(* provider it selected: the fastest one that is still eligible.           *)
(***************************************************************************)
OutageRequests == 15

\* the providers by ascending latency
SpeedOrder ==
    <<FALLBACK_LOCAL, OPENAI_CLOUD, HUGGINGFACE_CLOUD, OLLAMA_LOCAL, HUGGINGFACE_LOCAL>>

Rank(p) == CHOOSE j \in DOMAIN SpeedOrder : SpeedOrder[j] = p

\* every provider is in ERROR after this many requests
Exhausted == ErrorThreshold * Len(SpeedOrder)

\* the failures of p recorded by the k requests
Failures(k, p) ==
    LET before == ErrorThreshold * (Rank(p) - 1)
        own == IF k <= before THEN 0
               ELSE IF k - before >= ErrorThreshold THEN ErrorThreshold
               ELSE k - before
    IN IF p = FALLBACK_LOCAL /\ k > Exhausted THEN own + (k - Exhausted) ELSE own

\* the invocations of p by the k requests, first choice or fallback
Invocations(k, p) ==
    LET until == ErrorThreshold * Rank(p)
        listed == IF k < until THEN k ELSE until
    IN IF p = FALLBACK_LOCAL /\ k > Exhausted THEN listed + (k - Exhausted) ELSE listed

\* what the k requests leave in the store, the registry and the history variables
Worn(k) ==
    LET answer == DegradedResult("ping") IN
    [rq |-> IdleReq,
     hist |-> [i \in 1..(2 * k) |->
                 IF i % 2 = 1 THEN UserTurn("u1", "ping", StartTime)
                 ELSE IrisTurn("u1", answer, StartTime)],
     pr |-> [p \in AIProviders |->
               LET n == Failures(k, p) IN
               IF n = 0 THEN InitProviders[p]
               ELSE [InitProviders[p] EXCEPT
                       !.last_used = StartTime,
                       !.error_count = n,
                       !.status = IF n >= ErrorThreshold THEN ERROR ELSE AVAILABLE,
                       !.rate_limit = IF @.window = "none" THEN @
                                      ELSE [@ EXCEPT !.current = n]]],
     recent |-> [p \in AIProviders |->
                   LET n == Failures(k, p) IN
                   [i \in 1..(IF n < ErrorThreshold THEN n ELSE ErrorThreshold)
                      |-> FALSE]],
     attempted |-> [p \in AIProviders |->
                      IF Invocations(k, p) = 0 THEN << >>
                      ELSE (StartTime :> Invocations(k, p))]]

\* a task carried to its end while every provider raises
RECURSIVE Fail(_)
Fail(st) ==
    IF st.rq.pc = "primary" THEN Fail(PrimaryDone(st, FALSE, StartTime, FALSE))
    ELSE IF st.rq.pc = "fallback" THEN Fail(FallbackDone(st, FALSE, StartTime, FALSE))
    ELSE st

\* the state after the k-th request: the k-th request run on what k - 1 left
AfterOutage(k) ==
    IF k = 0 THEN Worn(0)
    ELSE LET rq == [IdleReq EXCEPT !.user_id = "u1", !.message = "ping"]
         IN Fail(Begin([Worn(k - 1) EXCEPT !.rq = rq], "speed_first",
                       StartTime, FALSE))

OutageState ==
    LET st == AfterOutage(OutageRequests) IN
    /\ providers = st.pr
    /\ routing_strategy = "speed_first"
    /\ strategy_error = "none"
    /\ conversation_history = st.hist
    /\ is_initialized = TRUE
    /\ now = StartTime
    /\ req = [r \in Slots |-> IF r = 1 THEN st.rq ELSE IdleReq]
    /\ recent = st.recent
    /\ attempted = st.attempted
    /\ events = 0

\* a run starts from the constructor state or in the outage
InitOutage == Init \/ OutageState

NextOutage == Run(ScenarioInject)

SpecOutage == InitOutage /\ [][NextOutage]_vars

(***************************************************************************)
(* Bursts: n process_message calls of u1 started together under smart.     *)
(* Each appends its turn and selects before any provider returns, so all   *)
(* are dispatched to the same provider; the provider raises for all but    *)
(* the last, whose answer it returns. Every failed call is answered by the *)
(* first provider of its fallback chain. A large burst leaves an AVAILABLE *)
(* provider whose error_count makes its score negative.                    *)
(***************************************************************************)
BurstSizes == {0, 9, 20}

\* the number of bursts, one after the other
BurstRounds == 3

\* the registry after n recorded failures of p
RECURSIVE Failed(_, _, _)
Failed(pr, p, n) ==
    IF n = 0 THEN pr
    ELSE Failed(UpdateProviderStats(pr, p, FALSE, StartTime), p, n - 1)

\* n more invocations of p at StartTime
Invoked(att, p, n) ==
    IF n = 0 THEN att
    ELSE [att EXCEPT ![p] = IF StartTime \in DOMAIN @
                            THEN [@ EXCEPT ![StartTime] = @ + n]
                            ELSE @ @@ (StartTime :> n)]

\* what a burst of n calls leaves in the store, the registry and the history
\* variables; calls answered by _fallback_process, which has no await, run one
\* after the other and form no burst
Burst(st, n) ==
    IF n = 0 \/ ~Suspends(SelectProvider(st.pr, "smart", "ping", StartTime)) THEN st
    ELSE LET p == SelectProvider(st.pr, "smart", "ping", StartTime)
             rq == [IdleReq EXCEPT !.user_id = "u1", !.message = "ping",
                                   !.start_time = StartTime]
             failed == Failed(ProvidersScanned(st.pr, StartTime), p, n - 1)
             pr1 == UpdateProviderStats(failed, p, TRUE, StartTime)
             outcomes == [i \in 1..n |-> i = n]
         IN [rq |-> IdleReq,
             hist |-> st.hist
                      \o [i \in 1..n |-> UserTurn("u1", "ping", StartTime)]
                      \o <<IrisTurn("u1", PrimaryResult(pr1, p, rq, StartTime),
                                    StartTime)>>,
             pr |-> pr1,
             recent |-> [st.recent EXCEPT ![p] =
                            SliceLast(@ \o outcomes, ErrorThreshold)],
             attempted |-> Invoked(Invoked(st.attempted, p, n),
                                   FallbackChain(failed, p)[1], n - 1)]

\* the bursts of a plan, one after the other
RECURSIVE Bursts(_, _)
Bursts(plan, i) ==
    IF i = 0
    THEN [rq |-> IdleReq, hist |-> << >>, pr |-> InitProviders,
          recent |-> [p \in AIProviders |-> << >>],
          attempted |-> [p \in AIProviders |-> << >>]]
    ELSE Burst(Bursts(plan, i - 1), plan[i])

\* the states the bursts leave behind, with room for two more events
Loaded ==
    \E plan \in [1..BurstRounds -> BurstSizes] :
        LET st == Bursts(plan, BurstRounds) IN
        /\ providers = st.pr
        /\ routing_strategy = "smart"
        /\ strategy_error = "none"
        /\ conversation_history = st.hist
        /\ is_initialized = TRUE
        /\ now = StartTime
        /\ req = [r \in Slots |-> IdleReq]
        /\ recent = st.recent
        /\ attempted = st.attempted
        /\ events = MaxEvents - 2

\* a run starts from the constructor state or after the bursts
InitLoad == Init \/ Loaded

ScenarioLoad ==
    [slots |-> {1}, requests |-> Requests, names |-> {"smart"},
     steps |-> {3601}, lastResort |-> {TRUE}]

NextLoad == Run(ScenarioLoad)

SpecLoad == InitLoad /\ [][NextLoad]_vars

(***************************************************************************)
(* Two tasks in flight on the busy system: the rate-limit check of a call  *)
(* runs at selection, the counter moves when its provider has returned.    *)
(***************************************************************************)
NextRush == Run(ScenarioConc)

SpecRush == InitWarm /\ [][NextRush]_vars

(***************************************************************************)
(* A provider one failure away from ERROR: the state after two requests    *)
(* "ping" of u1 under quality_first, one after the other, in each of which *)
(* openai_cloud raised and the first provider of the chain answered, and   *)
(* after the strategy was set back to smart.                               *)
(***************************************************************************)
StrainRequests == 2

\* the state after the k-th request: the k-th request run on what k - 1 left
RECURSIVE AfterStrain(_)
AfterStrain(k) ==
    IF k = 0 THEN Served(0)
    ELSE LET rq == [IdleReq EXCEPT !.user_id = "u1", !.message = "ping"]
             st1 == Begin([AfterStrain(k - 1) EXCEPT !.rq = rq], "quality_first",
                          StartTime, TRUE)
             st2 == PrimaryDone(st1, FALSE, StartTime, TRUE)
             st3 == FallbackDone(st2, TRUE, StartTime, TRUE)
         IN [st3 EXCEPT !.rq = IdleReq]

Strained ==
    LET st == AfterStrain(StrainRequests) IN
    /\ providers = st.pr
    /\ routing_strategy = "smart"
    /\ strategy_error = "none"
    /\ conversation_history = st.hist
    /\ is_initialized = TRUE
    /\ now = StartTime
    /\ req = [r \in Slots |-> IdleReq]
    /\ recent = st.recent
    /\ attempted = st.attempted
    /\ events = 0

\* a run starts from the constructor state or from the strained one
InitStrain == Init \/ Strained

NextStrain == Run(ScenarioConc)

SpecStrain == InitStrain /\ [][NextStrain]_vars

(***************************************************************************)
(* Properties                                                              *)
(***************************************************************************)
Range(seq) == {seq[i] : i \in DOMAIN seq}

Tasks == DOMAIN req

\* the task in slot r is over: process_message returned or raised
Over(r) == req[r].pc \in {"returned", "raised"}

\* process_request returned a dict to the task in slot r
Answered(r) == req[r].ai_result # NoResult

FirstFailed(r) == Len(req[r].attempts) >= 1 /\ ~req[r].attempts[1].success

LastSucceeded(r) ==
    Len(req[r].attempts) >= 1 /\ req[r].attempts[Len(req[r].attempts)].success

AllFailed(r) ==
    Len(req[r].attempts) >= 1 /\ \A i \in DOMAIN req[r].attempts : ~req[r].attempts[i].success

\* C1: process_message returns an outcome and never raises to its caller,
\* whichever providers fail.
C1_NeverRaises == \A r \in Tasks : req[r].pc # "raised"

\* C2: if the first-selected provider fails and a later provider of the
\* fallback chain succeeds, the outcome has fallback_used = true and
\* original_provider_failed = the first-selected provider.
C2_FallbackMarked ==
    \A r \in Tasks :
        (Answered(r) /\ FirstFailed(r) /\ LastSucceeded(r)) =>
            /\ {"fallback_used", "original_provider_failed"} \subseteq DOMAIN req[r].ai_result
            /\ req[r].ai_result.fallback_used = TRUE
            /\ req[r].ai_result.original_provider_failed = req[r].attempts[1].provider
            /\ req[r].attempts[1].provider = req[r].selected

C2_Witness ==
    \E r \in Tasks :
        /\ Answered(r) /\ FirstFailed(r) /\ LastSucceeded(r)
        /\ Len(req[r].attempts) >= 3

\* C3: every outcome process_request returns carries provider_used: the
\* provider that produced the response, or "emergency_fallback" when every
\* provider failed.
C3_ProviderUsed ==
    \A r \in Tasks :
        Answered(r) =>
            /\ "provider_used" \in DOMAIN req[r].ai_result
            /\ req[r].ai_result.provider_used =
                  IF LastSucceeded(r)
                  THEN req[r].attempts[Len(req[r].attempts)].provider
                  ELSE "emergency_fallback"

\* the task in slot r runs _select_provider in this step
Selects(r) ==
    /\ req'[r].pc \notin {"idle", "init"}
    /\ req[r].pc = "init" \/ req'[r].serial # req[r].serial

ErrorExcluded(pr, t, outcomes) ==
    \A p \in AIProviders :
        /\ outcomes[p] = <<FALSE, FALSE, FALSE>> => pr[p].status = ERROR
        /\ pr[p].status = ERROR =>
              /\ p \notin Range(AvailableProviders(pr, t))
              /\ \A q \in AIProviders : p \notin Range(FallbackChain(pr, q))

SelectionSkipsError ==
    \A r \in Tasks :
        Selects(r) =>
            (providers[req'[r].selected].status = ERROR
                => AvailableProviders(providers, now) = << >>)

ChainSkipsError ==
    \A r \in Tasks :
        req'[r].chain # req[r].chain =>
            \A p \in Range(req'[r].chain) : providers'[p].status = AVAILABLE

OnlySuccessRestores ==
    \A p \in AIProviders :
        (providers[p].status = ERROR /\ providers'[p].status # ERROR) =>
            /\ providers'[p].status = AVAILABLE
            /\ \E r \in Tasks :
                  /\ req'[r].serial = req[r].serial
                  /\ req'[r].recorded =
                        Append(req[r].recorded, [provider |-> p, success |-> TRUE])

\* C4: after 3 consecutive recorded failures a provider's status is ERROR;
\* while it is ERROR it is in no eligible set, is not selected as first choice
\* while another provider is eligible, and is placed in no fallback chain;
\* only a recorded success makes it AVAILABLE again.
C4_ErrorExcludedUntilSuccess ==
    [][/\ ErrorExcluded(providers, now, recent)
       /\ ErrorExcluded(providers', now', recent')
       /\ SelectionSkipsError
       /\ ChainSkipsError
       /\ OnlySuccessRestores]_vars

C4_Witness ==
    \E p \in AIProviders, r \in Tasks :
        /\ recent[p] = <<FALSE, FALSE, FALSE>>
        /\ providers[p].status = ERROR
        /\ req[r].pc = "primary"
        /\ req[r].eligible # << >>
        /\ p \notin Range(req[r].eligible)

\* every provider but the last resort that was invoked for the request of
\* slot r failed, and at least one was invoked
OthersFailed(r) ==
    /\ Answered(r)
    /\ \E i \in DOMAIN req[r].attempts : req[r].attempts[i].provider # FALLBACK_LOCAL
    /\ \A i \in DOMAIN req[r].attempts :
          req[r].attempts[i].provider # FALLBACK_LOCAL => ~req[r].attempts[i].success

\* C5 as stated: when every provider except the last resort fails for a
\* request, the outcome has provider_used = "emergency_fallback" and
\* confidence 0.1.
C5_DegradedWhenOthersFail ==
    \A r \in Tasks :
        OthersFailed(r) =>
            /\ "provider_used" \in DOMAIN req[r].ai_result
            /\ req[r].ai_result.provider_used = "emergency_fallback"
            /\ req[r].ai_result.confidence = 10

\* C5 amended: when every provider except the last resort fails for a
\* request, the outcome is the last resort's template response with
\* confidence 0.5 and fallback_used = true, not the emergency_fallback outcome.
C5_LastResortAnswers ==
    \A r \in Tasks :
        OthersFailed(r) =>
            /\ req[r].ai_result # DegradedResult(req[r].message)
            /\ req[r].ai_result.response = <<"template", req[r].message>>
            /\ req[r].ai_result.confidence = 50
            /\ "fallback_used" \in DOMAIN req[r].ai_result
            /\ req[r].ai_result.fallback_used = TRUE

C5_Witness ==
    \E r \in Tasks :
        /\ OthersFailed(r)
        /\ {req[r].attempts[i].provider : i \in DOMAIN req[r].attempts} = AIProviders

\* C6: when the first-selected provider fails and every provider attempted in
\* the fallback chain fails too (or the chain is empty), the task returns,
\* without raising, the degraded outcome: provider_used "emergency_fallback",
\* confidence 0.1 and an apology.
C6_DegradedOutcome ==
    \A r \in Tasks :
        (Over(r) /\ AllFailed(r)) =>
            /\ req[r].pc = "returned"
            /\ req[r].ai_result = DegradedResult(req[r].message)
            /\ req[r].result.provider_used = "emergency_fallback"
            /\ req[r].result.confidence = 10
            /\ req[r].result.response = <<"apology", req[r].message>>

C6_Witness ==
    \E r \in Tasks : Over(r) /\ AllFailed(r) /\ Len(req[r].attempts) >= 2

Degraded(r) == Answered(r) /\ req[r].ai_result = DegradedResult(req[r].message)

Tried(r) == {req[r].attempts[i].provider : i \in DOMAIN req[r].attempts}

\* C7 as stated: the degraded outcome is returned only when every provider,
\* the last resort included, was invoked for that request and failed.
C7_DegradedOnlyWhenAllTried ==
    \A r \in Tasks : Degraded(r) => (AllFailed(r) /\ Tried(r) = AIProviders)

\* C7 amended: the degraded outcome is returned only when the first-selected
\* provider and every provider of its fallback chain were invoked and failed;
\* the providers left untried are those whose status was ERROR when the chain
\* was built.
C7_DegradedOnlyWhenChainFailed ==
    \A r \in Tasks :
        Degraded(r) =>
            /\ AllFailed(r)
            /\ Tried(r) = {req[r].selected} \cup Range(req[r].chain)
            /\ \A p \in AIProviders \ Tried(r) : providers[p].status = ERROR

C7_Witness == \E r \in Tasks : Degraded(r) /\ Tried(r) # AIProviders

AllStrategies == ValidStrategies \cup {"priority_first"}

\* C8: for every strategy and every reachable registry state with at least
\* one eligible provider, the provider selection returns is eligible.
C8_SelectsEligible ==
    /\ \A s \in AllStrategies, q \in Requests :
          LET available == AvailableProviders(providers, now) IN
          available # << >> =>
              SelectProvider(providers, s, q.message, now) \in Range(available)
    /\ \A r \in Tasks :
          (req[r].pc \notin {"idle", "init"} /\ req[r].eligible # << >>) =>
              req[r].selected \in Range(req[r].eligible)

C8_Witness ==
    \E r \in Tasks :
        /\ req[r].pc = "primary"
        /\ req[r].eligible # << >>
        /\ Range(req[r].eligible) # AIProviders
        /\ req[r].selected \in Range(req[r].eligible)

RateLimited == {p \in AIProviders : providers[p].rate_limit.window # "none"}

Window(p) ==
    IF providers[p].rate_limit.window = "per_hour" THEN HourSeconds ELSE MinuteSeconds

RECURSIVE Total(_, _)
Total(f, S) ==
    IF S = {} THEN 0
    ELSE LET x == CHOOSE x \in S : TRUE IN f[x] + Total(f, S \ {x})

\* the invocations of p in the window that ends now
AttemptsInWindow(p) ==
    Total(attempted[p], {t \in DOMAIN attempted[p] : now - t <= Window(p)})

\* C9: after max_requests attempts within the window the rate-limit check
\* returns false for the provider; once the window length has elapsed the
\* check resets the counter to 0 and returns true.
C9_LimitedAfterMaxAttempts ==
    \A p \in RateLimited :
        /\ AttemptsInWindow(p) >= providers[p].rate_limit.max_requests
              => ~CheckRateLimit(providers[p], now)
        /\ now - providers[p].last_used > Window(p)
              => /\ CheckRateLimit(providers[p], now)
                 /\ RateLimitChecked(providers[p], now).current = 0

\* C10: every dispatch attempt, first choice or fallback, success or failure,
\* is followed by exactly one recordOutcome for that provider (and with it
\* one increment of its rate-limit counter).
C10_EveryAttemptRecorded ==
    \A r \in Tasks : Over(r) => req[r].recorded = req[r].attempts

\* C11: set_routing_strategy with a name outside the enumerated strategies
\* ("fastest") raises, leaves the routing strategy and the registry as they
\* were, and a selection made afterwards returns what the prior strategy returns.
C11_InvalidNameRejected ==
    [][\A s \in StrategyNames \ AllStrategies :
          SetRoutingStrategy(s) =>
              /\ strategy_error' = "ValueError"
              /\ routing_strategy' = routing_strategy
              /\ providers' = providers
              /\ \A q \in Requests :
                    SelectProvider(providers', routing_strategy', q.message, now')
                        = SelectProvider(providers, routing_strategy, q.message, now)]_vars

C11_Witness ==
    /\ strategy_error = "ValueError"
    /\ routing_strategy = "speed_first"
    /\ \E r \in Tasks :
          /\ req[r].serial = events
          /\ req[r].attempts # << >>
          /\ req[r].selected = FALLBACK_LOCAL

\* C12 as stated: set_routing_strategy accepts each of smart, cost_first,
\* speed_first, quality_first and priority_first, and the strategy named is
\* the active one after the call.
C12_FiveNamesAccepted ==
    [][\A s \in AllStrategies :
          SetRoutingStrategy(s) =>
              (routing_strategy' = s /\ strategy_error' = "none")]_vars

\* C12 amended: set_routing_strategy accepts each of smart, cost_first,
\* speed_first and quality_first, and the strategy named is the active one
\* after the call; priority_first is rejected like any other name and the
\* active strategy stays what it was.
C12_FourNamesAccepted ==
    [][/\ \A s \in ValidStrategies :
             SetRoutingStrategy(s) =>
                 (routing_strategy' = s /\ strategy_error' = "none")
       /\ SetRoutingStrategy("priority_first") =>
             (routing_strategy' = routing_strategy /\ strategy_error' = "ValueError")]_vars

C12_Witness ==
    /\ routing_strategy \in ValidStrategies \ {"smart"}
    /\ strategy_error = "none"
    /\ \E r \in Tasks : req[r].serial = events /\ req[r].attempts # << >>

\* C13: under cost_first, selection returns an eligible provider of minimum
\* cost, and among the eligible providers of that cost the one with the
\* lowest priority value.
C13_CostFirst ==
    \A q \in Requests :
        LET available == AvailableProviders(providers, now)
            selected == SelectProvider(providers, "cost_first", q.message, now)
        IN available # << >> =>
              /\ selected \in Range(available)
              /\ \A p \in Range(available) :
                    /\ providers[selected].cost <= providers[p].cost
                    /\ providers[p].cost = providers[selected].cost
                          => providers[selected].priority <= providers[p].priority

C13_Witness ==
    \E r \in Tasks :
        /\ routing_strategy = "cost_first"
        /\ req[r].serial = events
        /\ req[r].pc = "primary"
        /\ OPENAI_CLOUD \in Range(req[r].eligible)
        /\ \E p \in Range(req[r].eligible) :
              /\ p # req[r].selected
              /\ providers[p].cost = providers[req[r].selected].cost
              /\ providers[p].priority > providers[req[r].selected].priority

\* messages of equal length with different text
Messages == {"ping", "pong", "essay"}

\* the registry with every last_used stamp cleared
Unstamped(pr) == [p \in AIProviders |-> [pr[p] EXCEPT !.last_used = 0]]

MaxLimit == 6

Users == {q.user_id : q \in Requests}

\* the turns of user_id in the store, in the order they were appended
TurnsOf(user_id) == SelectSeq(conversation_history, LAMBDA msg : msg.user_id = user_id)

C16_TwoTurnsPerCall ==
    \A r \in Tasks :
        Over(r) =>
            LET h == conversation_history
                n == Len(h)
            IN /\ n % 2 = 0
               /\ \A i \in 1..n :
                     i % 2 = 1 =>
                         /\ h[i].type = "user"
                         /\ h[i + 1].type = "iris"
                         /\ h[i + 1].user_id = h[i].user_id
               /\ n >= 2
               /\ h[n - 1].user_id = req[r].user_id
               /\ h[n - 1].message = req[r].message
               /\ "provider_used" \in DOMAIN req[r].ai_result
               /\ h[n].provider = req[r].ai_result.provider_used
               /\ h[n].confidence = req[r].ai_result.confidence

\* C17: when the first-selected provider succeeds, the outcome has
\* fallback_used = false.
C17_PrimaryNotFallback ==
    \A r \in Tasks :
        (Answered(r) /\ Len(req[r].attempts) = 1 /\ req[r].attempts[1].success) =>
            /\ "fallback_used" \in DOMAIN req[r].ai_result
            /\ req[r].ai_result.fallback_used = FALSE

\* C19: the last-resort provider is eligible in every reachable state: its
\* status is AVAILABLE whatever requests were made and however the other
\* providers fared.
C19_LastResortEligible ==
    /\ providers[FALLBACK_LOCAL].status = AVAILABLE
    /\ FALLBACK_LOCAL \in Range(AvailableProviders(providers, now))

C19_Witness ==
    /\ attempted[FALLBACK_LOCAL] # << >>
    /\ providers[FALLBACK_LOCAL].last_used > 0
    /\ \E p \in AIProviders : \E q \in AIProviders :
          /\ p # q
          /\ recent[p] # << >>
          /\ providers[q].error_count > 0
    /\ providers[FALLBACK_LOCAL].status = AVAILABLE

\* C20: after the first-selected provider failed, the providers attempted
\* all differ from it, are attempted in strictly ascending priority order,
\* each at most once, and no provider is attempted after one succeeded.
C20_FallbackOrder ==
    \A r \in Tasks :
        LET a == req[r].attempts IN
        /\ \A i \in DOMAIN a : i >= 2 =>
              /\ ~a[1].success
              /\ a[i].provider # a[1].provider
              /\ a[i].provider # req[r].selected
        /\ \A i, j \in DOMAIN a : (2 <= i /\ i < j) =>
              /\ providers[a[i].provider].priority < providers[a[j].provider].priority
              /\ a[i].provider # a[j].provider
        /\ \A i \in DOMAIN a : i < Len(a) => ~a[i].success

C20_Witness ==
    \E r \in Tasks :
        /\ Len(req[r].attempts) >= 4
        /\ req[r].attempts[Len(req[r].attempts)].success
        /\ req[r].selected # OLLAMA_LOCAL

\* C18: when no provider is eligible, selection does not fail: it returns the
\* last-resort provider, under every strategy, and the request made in that
\* state returns an outcome to its caller.
C18_EmptyPoolSelectsLastResort ==
    /\ \A s \in AllStrategies, q \in Requests :
          AvailableProviders(providers, now) = << >> =>
              SelectProvider(providers, s, q.message, now) = FALLBACK_LOCAL
    /\ \A r \in Tasks :
          (req[r].pc \notin {"idle", "init"} /\ req[r].eligible = << >>) =>
              /\ req[r].selected = FALLBACK_LOCAL
              /\ req[r].pc = "returned"

C18_Witness ==
    \E r \in Tasks :
        /\ req[r].serial = events
        /\ req[r].pc = "returned"
        /\ req[r].eligible = << >>
        /\ req[r].selected = FALLBACK_LOCAL
        /\ req[r].attempts = <<[provider |-> FALLBACK_LOCAL, success |-> TRUE]>>
        /\ req[r].result.provider_used = FALLBACK_LOCAL


(***************************************************************************)
(* Fallback attempts and the rate limit                                    *)
(***************************************************************************)
\* the chain provider a task is waiting for
Awaited(r) == req[r].chain[req[r].idx]

\* C21: the fallback chain holds only eligible providers: a provider whose
\* rate-limit counter has reached max_requests within the current window is
\* never attempted as a fallback.
C21_FallbackWithinRateLimit ==
    \A r \in Tasks :
        req[r].pc = "fallback" =>
            /\ providers[Awaited(r)].status = AVAILABLE
            /\ CheckRateLimit(providers[Awaited(r)], req[r].start_time)


(***************************************************************************)
(* The error counter and the circuit breaker                               *)
(***************************************************************************)
\* the outcomes task r records in this step
NewRecords(r) ==
    IF req'[r].serial = req[r].serial
    THEN SubSeq(req'[r].recorded, Len(req[r].recorded) + 1, Len(req'[r].recorded))
    ELSE req'[r].recorded

\* this step records outcome ok for provider p
Records(p, ok) ==
    \E r \in Tasks : NewRecords(r) = <<[provider |-> p, success |-> ok]>>

CountStep(p) ==
    LET info == providers[p]
        after == providers'[p]
    IN /\ info.error_count >= 0
       /\ after.error_count >= 0
       /\ Records(p, TRUE) =>
             /\ after.error_count =
                   IF info.error_count = 0 THEN 0 ELSE info.error_count - 1
             /\ after.status = IF info.status = ERROR THEN AVAILABLE ELSE info.status
       /\ Records(p, FALSE) =>
             /\ after.error_count = info.error_count + 1
             /\ after.status =
                   IF after.error_count >= ErrorThreshold THEN ERROR ELSE info.status
       /\ ~(Records(p, TRUE) \/ Records(p, FALSE)) =>
             /\ after.error_count = info.error_count
             /\ after.status = info.status

\* C22: error_count is never negative; each recorded success lowers it by
\* exactly 1 unless it is already 0 and turns ERROR back into AVAILABLE, each
\* recorded failure raises it by exactly 1 and sets ERROR once the count is at
\* least 3, and nothing else changes the count or the status.
C22_ErrorCountSteps == [][\A p \in AIProviders : CountStep(p)]_vars

\* a provider restored by a success after three failures, its count lowered to 2
C22_Witness ==
    \E p \in AIProviders :
        /\ recent[p] = <<FALSE, FALSE, TRUE>>
        /\ providers[p].error_count = 2
        /\ providers[p].status = AVAILABLE


\* the status of p goes from AVAILABLE to ERROR in this step
Flips(p) == providers[p].status = AVAILABLE /\ providers'[p].status = ERROR

\* C23: the circuit breaker counts consecutive errors: the status flips from
\* AVAILABLE to ERROR only when the three most recent recorded outcomes of
\* the provider are all failures.
C23_FlipsAfterThreeFailures ==
    [][\A p \in AIProviders :
          Flips(p) => recent'[p] = <<FALSE, FALSE, FALSE>>]_vars

\* C23 (amended): the counter is failures net of successes (floor 0): the
\* status of an AVAILABLE provider flips to ERROR exactly in a step that
\* records a failure of it and brings error_count to at least 3, whatever the
\* outcomes before it were.
C23_FlipsAtThreshold ==
    [][\A p \in AIProviders :
          providers[p].status = AVAILABLE =>
              (Flips(p) <=> /\ Records(p, FALSE)
                            /\ providers[p].error_count + 1 >= ErrorThreshold)]_vars

\* a provider in ERROR whose last failure follows a recorded success
C23_Witness ==
    \E p \in AIProviders :
        /\ providers[p].status = ERROR
        /\ recent[p] = <<FALSE, TRUE, FALSE>>


(***************************************************************************)
(* Smart selection against the score as stated, without the clamp          *)
(***************************************************************************)
\* the score as the sum of its terms, in 1/1000
RawScore(pr, p, message) ==
    pr[p].quality * 4 + (6 - pr[p].priority) * 100 - pr[p].latency * 10
    - pr[p].cost * 10 - pr[p].error_count * 50
    + (IF IsLocal(p) THEN 200 ELSE 0)
    + (IF MessageLen(message) > LongMessage THEN pr[p].quality * 2 ELSE 0)

\* C24: under smart the selected provider is the eligible one with the
\* maximum score (the sum of the terms, not clamped) and, among equal
\* maxima, the lowest priority value; also where the clamp at 0 applies.
C24_SmartMaximum ==
    \A q \in Requests :
        LET available == AvailableProviders(providers, now)
            selected == SelectProvider(providers, "smart", q.message, now)
        IN available # << >> =>
              /\ selected \in Range(available)
              /\ \A p \in Range(available) :
                    /\ RawScore(providers, selected, q.message)
                          >= RawScore(providers, p, q.message)
                    /\ RawScore(providers, p, q.message)
                          = RawScore(providers, selected, q.message)
                          => providers[selected].priority <= providers[p].priority

\* a request dispatched under smart while two eligible providers have
\* negative sums, both clamped to 0
C24_Witness ==
    \E r \in Tasks :
        /\ routing_strategy = "smart"
        /\ req[r].serial = events
        /\ req[r].pc = "primary"
        /\ \E p1, p2 \in Range(req[r].eligible) :
              /\ p1 # p2
              /\ RawScore(providers, p1, req[r].message) < 0
              /\ RawScore(providers, p2, req[r].message) < 0
              /\ CalculateScore(providers, p1, req[r].message) = 0


(***************************************************************************)
(* The single-key strategies                                               *)
(***************************************************************************)
\* C25: for every non-empty eligible set, speed_first selects an eligible
\* provider of minimum latency, quality_first one of maximum quality and
\* priority_first one of minimum priority value.
C25_SingleKeyStrategies ==
    \A q \in Requests :
        LET available == AvailableProviders(providers, now)
            fastest == SelectProvider(providers, "speed_first", q.message, now)
            best == SelectProvider(providers, "quality_first", q.message, now)
            first == SelectProvider(providers, "priority_first", q.message, now)
        IN available # << >> =>
              /\ {fastest, best, first} \subseteq Range(available)
              /\ \A p \in Range(available) :
                    /\ providers[fastest].latency <= providers[p].latency
                    /\ providers[best].quality >= providers[p].quality
                    /\ providers[first].priority <= providers[p].priority

\* a request dispatched under quality_first while the provider of highest
\* quality is at its rate limit
C25_Witness ==
    \E r \in Tasks :
        /\ routing_strategy = "quality_first"
        /\ req[r].serial = events
        /\ req[r].pc = "primary"
        /\ req[r].eligible # << >>
        /\ OPENAI_CLOUD \notin Range(req[r].eligible)
        /\ req[r].selected = HUGGINGFACE_CLOUD

(***************************************************************************)
(* Termination: the steps a call still has to take                         *)
(***************************************************************************)
Running(r) == req[r].pc \in {"init", "primary", "fallback"}

\* an upper bound of the number of times the call rq is still resumed:
\* after initialize(), after the selected provider, after each provider
\* of the chain from the awaited one on
Remaining(rq) ==
    CASE rq.pc = "init" -> Len(AIProvider) + 2
      [] rq.pc = "primary" -> Len(AIProvider) + 1
      [] rq.pc = "fallback" -> Len(rq.chain) - rq.idx + 1
      [] OTHER -> 0

\* no provider twice among the invocations of the call rq
InvokedOnce(rq) ==
    \A i, j \in DOMAIN rq.attempts :
        rq.attempts[i].provider = rq.attempts[j].provider => i = j

\* C26: a request invokes each provider at most once, so at most 5 times,
\* and every return or exception of what it awaits brings it nearer to its
\* end, which it reaches with the answer of a provider, selected or
\* fallback, or with the degraded outcome: a call whose invocations all
\* return or raise terminates.
C26_Terminates ==
    [][\A r \in Tasks :
          /\ InvokedOnce(req'[r])
          /\ Len(req'[r].attempts) <= Len(AIProvider)
          /\ (Running(r) /\ req'[r] # req[r]) =>
                /\ Remaining(req'[r]) < Remaining(req[r])
                /\ Remaining(req'[r]) = 0 =>
                      /\ req'[r].pc \in {"returned", "raised"}
                      /\ req'[r].ai_result # NoResult]_vars

\* a call that ended degraded after five invocations
C26_Witness ==
    \E r \in Tasks :
        /\ Over(r)
        /\ Degraded(r)
        /\ Len(req[r].attempts) = Len(AIProvider)


(***************************************************************************)
(* set_routing_strategy while a call is in flight                          *)
(***************************************************************************)
Dispatched(r) == req[r].pc \in {"primary", "fallback"}

\* the chain lists its providers by ascending priority value
ByPriority(chain) ==
    \A i, j \in DOMAIN chain :
        i < j => InitProviders[chain[i]].priority < InitProviders[chain[j]].priority

\* C27: a set_routing_strategy that takes effect while a call is past
\* selection changes nothing of that call: the call keeps the provider it
\* was dispatched to, a chain once built stays as it is, and a chain built
\* afterwards is in priority order whatever the strategy; the new strategy
\* is used by the selections made afterwards.
C27_StrategyChangeInFlight ==
    [][\A r \in Tasks :
          /\ routing_strategy' # routing_strategy => req'[r] = req[r]
          /\ (Dispatched(r) /\ req'[r].serial = req[r].serial) =>
                /\ req'[r].selected = req[r].selected
                /\ req[r].pc = "fallback" => req'[r].chain = req[r].chain
                /\ ByPriority(req'[r].chain)
          /\ Selects(r) =>
                req'[r].selected =
                    SelectProvider(providers, routing_strategy, req'[r].message, now)]_vars

\* a call still running its fallback chain for the provider smart selected,
\* after the strategy became speed_first, which selects another provider
C27_Witness ==
    \E r \in Tasks :
        /\ req[r].pc = "fallback"
        /\ req[r].selected = OLLAMA_LOCAL
        /\ routing_strategy = "speed_first"
        /\ SelectProvider(providers, routing_strategy, req[r].message, now)
              # req[r].selected


(***************************************************************************)
(* Outcomes recorded by calls in flight together                           *)
(***************************************************************************)
\* error_count after the first i outcomes of log, one after the other
RECURSIVE SerialCount(_, _)
SerialCount(log, i) ==
    IF i = 0 THEN 0
    ELSE LET count == SerialCount(log, i - 1) IN
         IF log[i] THEN (IF count = 0 THEN 0 ELSE count - 1) ELSE count + 1

\* fewer than three outcomes recorded for p: recent[p] holds all of them
AllRecorded(p) == Len(recent[p]) < ErrorThreshold

\* C28: with several calls in flight against the same provider no recorded
\* outcome is lost: error_count and status are those of the recorded
\* outcomes applied one after the other, and every recorded outcome adds
\* exactly 1 to the rate-limit counter.
C28_SerialOutcomes ==
    /\ [](\A p \in AIProviders :
             AllRecorded(p) =>
                 /\ providers[p].error_count = SerialCount(recent[p], Len(recent[p]))
                 /\ providers[p].status = AVAILABLE)
    /\ [][\A p \in RateLimited :
             (Records(p, TRUE) \/ Records(p, FALSE)) =>
                 /\ providers'[p].rate_limit.current
                       = providers[p].rate_limit.current + 1
                 /\ providers'[p].last_used = now]_vars

\* two calls in flight against the same provider: the later one recorded a
\* success, then the earlier one a failure
C28_Witness ==
    \E p \in AIProviders :
        /\ req[1].serial < req[2].serial
        /\ req[1].recorded = <<[provider |-> p, success |-> FALSE]>>
        /\ req[2].recorded = <<[provider |-> p, success |-> TRUE]>>
        /\ recent[p] = <<TRUE, FALSE>>
        /\ providers[p].error_count = 1
        /\ providers[p].rate_limit.current = 2


(***************************************************************************)
(* The context of a request and the store                                  *)
(***************************************************************************)
\* C29: process_message reads the recent context before it appends the
\* user's turn of the current request: the context passed on consists of the
\* user's latest turns in the store as it was before the request and does
\* not contain the current message.
C29_ContextBeforeAppend ==
    [][\A r \in Tasks :
          Selects(r) =>
              /\ req'[r].context =
                    GetConversationHistory(conversation_history, req'[r].user_id,
                                           HistoryLimit)
              /\ \A i \in DOMAIN req'[r].context :
                    req'[r].context[i] \in Range(conversation_history)]_vars


\* the turns this step adds at the end of the store
Appended ==
    SubSeq(conversation_history', Len(conversation_history) + 1,
           Len(conversation_history'))

\* task r returns from process_message in this step
Returns(r) ==
    /\ req'[r].pc = "returned"
    /\ req[r].pc # "returned" \/ req'[r].serial # req[r].serial

\* C30: the store is append-only under any interleaving of calls: the store
\* before a step is a prefix of the store after it, and no append is lost:
\* the user's turn of a call that starts and the assistant's turn of a call
\* that returns are at the end of the store after the step.
C30_StoreAppendOnly ==
    [][/\ Len(conversation_history) <= Len(conversation_history')
       /\ SubSeq(conversation_history', 1, Len(conversation_history))
             = conversation_history
       /\ \A r \in Tasks :
             /\ Selects(r) =>
                   /\ Appended # << >>
                   /\ Appended[1] = UserTurn(req'[r].user_id, req'[r].message, now)
             /\ Returns(r) =>
                   /\ Appended # << >>
                   /\ Appended[Len(Appended)] =
                         IrisTurn(req'[r].user_id, req'[r].ai_result, now)]_vars

\* two calls in flight together: both users' turns were appended before
\* either assistant turn, and both calls have returned
C30_Witness ==
    /\ Len(conversation_history) >= 4
    /\ conversation_history[1].type = "user"
    /\ conversation_history[2].type = "user"
    /\ conversation_history[3].type = "iris"
    /\ conversation_history[4].type = "iris"
    /\ req[1].pc = "returned"
    /\ req[2].pc = "returned"


(***************************************************************************)
(* A provider in ERROR while calls are handled one at a time               *)
(***************************************************************************)
\* C31: with one call at a time, a provider other than fallback_local whose
\* status is ERROR is not invoked again and stays in ERROR: no later call
\* records a success for it.
C31_ErrorIsFinal ==
    [][\A p \in AIProviders \ {FALLBACK_LOCAL} :
          providers[p].status = ERROR =>
              /\ providers'[p].status = ERROR
              /\ attempted'[p] = attempted[p]
              /\ ~Records(p, TRUE)
              /\ ~Records(p, FALSE)]_vars

\* a call handled to its end after three calls drove a provider into ERROR:
\* it did not invoke the provider
C31_Witness ==
    \E p \in AIProviders \ {FALLBACK_LOCAL}, r \in Tasks :
        /\ providers[p].status = ERROR
        /\ recent[p] = <<FALSE, FALSE, FALSE>>
        /\ req[r].serial = events
        /\ Over(r)
        /\ req[r].attempts # << >>
        /\ p \notin Tried(r)


(***************************************************************************)
(* The rate-limit counter under concurrent calls                           *)
(***************************************************************************)
\* C32: under any interleaving of concurrent calls the counter of a
\* rate-limited provider never exceeds its max_requests.
C32_CounterWithinMax ==
    \A p \in RateLimited :
        providers[p].rate_limit.current <= providers[p].rate_limit.max_requests


(***************************************************************************)
(* Invocations and the status of the invoked provider                      *)
(***************************************************************************)
\* in this step task r starts to await provider p
Starts(r, p) ==
    /\ \/ req'[r].pc = "primary" /\ req'[r].selected = p
       \/ /\ req'[r].pc = "fallback"
          /\ req'[r].chain[req'[r].idx] = p
    /\ \/ req'[r].serial # req[r].serial
       \/ req'[r].pc # req[r].pc
       \/ req'[r].idx # req[r].idx

\* C33: under any interleaving of concurrent calls no invocation of a
\* provider starts while its status is ERROR, except an invocation of
\* fallback_local selected because no provider was eligible.
C33_NoInvocationInError ==
    [][\A r \in Tasks, p \in AIProviders :
          Starts(r, p) => providers'[p].status # ERROR]_vars


(***************************************************************************)
(* What a refusal of the rate-limit check says about the window            *)
(***************************************************************************)
\* C34: the rate-limit check returns false for a provider only if at least
\* max_requests dispatches to it were made within the last window length
\* (60 seconds for per_minute, 3600 seconds for per_hour) before the check.
C34_RefusedOnlyWhenWindowFull ==
    \A p \in RateLimited :
        ~CheckRateLimit(providers[p], now)
            => AttemptsInWindow(p) >= providers[p].rate_limit.max_requests


(***************************************************************************)
(* Status and error_count                                                  *)
(***************************************************************************)
\* C35: in every reachable state, under any interleaving of calls, the
\* status of a provider is ERROR if and only if its error_count is at
\* least 3.
C35_ErrorIffThreshold ==
    \A p \in AIProviders :
        providers[p].status = ERROR <=> providers[p].error_count >= ErrorThreshold

\* C35 (amended): a provider in ERROR has an error_count of at least 3; the
\* converse does not hold, since a success recorded for a provider in ERROR
\* makes it AVAILABLE and lowers the count by 1 only.
C35_ErrorImpliesThreshold ==
    \A p \in AIProviders :
        providers[p].status = ERROR => providers[p].error_count >= ErrorThreshold

\* a provider put into ERROR by a recorded failure next to a provider that
\* is AVAILABLE with an error_count of 3 or more
C35_Witness ==
    \E p, q \in AIProviders :
        /\ providers[p].status = ERROR
        /\ recent[p][Len(recent[p])] = FALSE
        /\ \E r \in Tasks : req[r].serial = events /\ req[r].selected = p
        /\ providers[q].status = AVAILABLE
        /\ providers[q].error_count >= ErrorThreshold


(***************************************************************************)
(* get_conversation_history with limit 0                                   *)
(***************************************************************************)
\* C36: for every limit >= 0 get_conversation_history(user_id, limit)
\* returns at most limit turns; in particular limit 0 returns the empty
\* sequence.
C36_AtMostLimit ==
    \A u \in Users, limit \in 0..MaxLimit :
        Len(GetConversationHistory(conversation_history, u, limit)) <= limit


(***************************************************************************)
(* Smart selection and ollama_local                                        *)
(***************************************************************************)
\* ollama_local passes the eligibility scan of the selection of this step
OllamaEligible == OLLAMA_LOCAL \in Range(AvailableProviders(providers, now))

\* C37: under smart, with the configured provider data, ollama_local is
\* selected whenever it is eligible, in every reachable state and for every
\* message length.
C37_OllamaWheneverEligible ==
    [][\A r \in Tasks :
          (Selects(r) /\ routing_strategy = "smart" /\ OllamaEligible)
              => req'[r].selected = OLLAMA_LOCAL]_vars

\* C37 (amended): under smart ollama_local is selected whenever it is
\* eligible with an error_count below 3, for every message length; an
\* eligible ollama_local with a higher count can lose to another provider.
C37_OllamaWhileFewErrors ==
    [][\A r \in Tasks :
          (/\ Selects(r)
           /\ routing_strategy = "smart"
           /\ OllamaEligible
           /\ providers[OLLAMA_LOCAL].error_count < ErrorThreshold)
              => req'[r].selected = OLLAMA_LOCAL]_vars

\* a long message dispatched under smart to ollama_local after two failures
\* of it
C37_Witness ==
    \E r \in Tasks :
        /\ routing_strategy = "smart"
        /\ req[r].serial = events
        /\ req[r].pc = "primary"
        /\ req[r].selected = OLLAMA_LOCAL
        /\ MessageLen(req[r].message) > LongMessage
        /\ providers[OLLAMA_LOCAL].error_count = ErrorThreshold - 1


(***************************************************************************)
(* get_provider_status: lines 369-381                                      *)
(***************************************************************************)
GetProviderStatus(pr) ==
    [p \in AIProviders |->
        [status |-> pr[p].status, priority |-> pr[p].priority,
         quality |-> pr[p].quality, latency |-> pr[p].latency,
         cost |-> pr[p].cost, error_count |-> pr[p].error_count]]

\* the rate-limit check refuses p now
LimitReached(p) == ~CheckRateLimit(providers[p], now)

\* C38: the status of every provider is AVAILABLE or ERROR in every
\* reachable state, UNAVAILABLE and RATE_LIMITED are never set: a provider
\* whose rate limit is exhausted, unless it is in ERROR, is reported as
\* available by get_provider_status.
C38_TwoStatuses ==
    \A p \in AIProviders :
        /\ providers[p].status \in {AVAILABLE, ERROR}
        /\ GetProviderStatus(providers)[p].status = providers[p].status
        /\ (LimitReached(p) /\ providers[p].status # ERROR)
              => GetProviderStatus(providers)[p].status = AVAILABLE

\* openai_cloud at its limit of 60 per minute, refused by the check, and
\* reported as available
C38_Witness ==
    /\ providers[OPENAI_CLOUD].rate_limit.current
          >= providers[OPENAI_CLOUD].rate_limit.max_requests
    /\ LimitReached(OPENAI_CLOUD)
    /\ GetProviderStatus(providers)[OPENAI_CLOUD].status = AVAILABLE
    /\ \E r \in Tasks : req[r].serial = events /\ Over(r)


(***************************************************************************)
(* What selection changes                                                  *)
(***************************************************************************)
\* the entry after differs from the entry before at most in a rate-limit
\* counter reset to 0, and only when the window has elapsed at time t
OnlyCounterReset(before, after, t) ==
    /\ [after EXCEPT !.rate_limit = before.rate_limit] = before
    /\ [after.rate_limit EXCEPT !.current = before.rate_limit.current]
          = before.rate_limit
    /\ after.rate_limit.current # before.rate_limit.current =>
          /\ after.rate_limit.current = 0
          /\ \/ /\ before.rate_limit.window = "per_hour"
                /\ t - before.last_used > HourSeconds
             \/ /\ before.rate_limit.window = "per_minute"
                /\ t - before.last_used > MinuteSeconds

\* C39: _select_provider leaves status, error_count, last_used, priority,
\* cost, latency and quality of every provider and the routing strategy as
\* they are; all it may change is the rate-limit counter of a provider whose
\* window has elapsed, which it resets to 0.
C39_SelectionFrame ==
    [][\A r \in Tasks :
          (Selects(r) /\ req'[r].pc = "primary") =>
              /\ routing_strategy' = routing_strategy
              /\ \A p \in AIProviders :
                    OnlyCounterReset(providers[p], providers'[p], now)]_vars

\* a call just dispatched whose selection reset the counter of openai_cloud,
\* used more than a minute before
C39_Witness ==
    \E r \in Tasks :
        /\ req[r].serial = events
        /\ req[r].pc = "primary"
        /\ providers[OPENAI_CLOUD].rate_limit.current = 0
        /\ providers[OPENAI_CLOUD].last_used > 0
        /\ now - providers[OPENAI_CLOUD].last_used > MinuteSeconds

====
